---- MODULE Spec2Model ----
(***************************************************************************)
(* Model of the anomaly-detection core of zd819/Fraud-Detection:           *)
(*   - CentralAnomalyDetector (svm_classifier.py): feature extraction,     *)
(*     the train-once gate at 50 buffered vectors, classification;         *)
(*   - LLMWatchdogWrapper (inference.py): the per-prompt event group, the  *)
(*     embedding buffer with its 50-wide LOF window, the resource monitor  *)
(*     thread and the JSONL log.                                           *)
(*                                                                         *)
(* The specifications share the variables:                                 *)
(*   Spec         one caller drives process_event (whole calls);           *)
(*   SpecWrapper  the wrapper's operations and its monitor thread;         *)
(*   SpecConc     two threads run process_event statement by statement;    *)
(*   SpecRace     two threads inside `self.total_processed += 1`;          *)
(*   SpecForce    a caller also invokes train_model directly;              *)
(*   SpecStream   one run of process_watchdog_stream over a file;          *)
(*   SpecExtract  extract_features alone, on bounded strings.              *)
(*                                                                         *)
(* Abstractions, stated once:                                              *)
(*   - feature_log is kept as the bag of the widths of the vectors it      *)
(*     holds: np.array / StandardScaler.fit_transform only succeed when    *)
(*     all rows have one width, and nothing else reads the rows;           *)
(*   - the fitted OneClassSVM is a threshold on the first feature, picked  *)
(*     nondeterministically when fit() runs and frozen afterwards;         *)
(*   - an embedding is the serial number of its insertion;                 *)
(*   - a Python exception is a value: raised # "none".                     *)
(***************************************************************************)
EXTENDS Integers, Sequences, FiniteSets, Bags, TLC

\* ------------------------------------------------------------------ bounds
\* cap on len(feature_log) in Spec and SpecConc
MaxLog == 52

\* cap on the completed fits in SpecForce
MaxFits == 2
\* cap on len(feature_log) in SpecRace
MaxRace == 4
\* longest prompt, response and tool name extract_features is given in
\* SpecExtract
MaxStr == 2
\* longest event file process_watchdog_stream is run on in SpecStream
MaxLines == 4
\* cap on the number of wrapper operations and monitor polls in SpecWrapper
MaxOps == 3
\* largest embeddings.pkl the wrapper may find when it is constructed
MaxLoaded == 51

\* --------------------------------------------------------------- constants
\* inference.py:110-111  `> 50`, `self.embeddings[-50:]`
WindowSize == 50
\* svm_classifier.py:55  `len(self.feature_log) >= 50`
Threshold == 50
\* svm_classifier.py:81  `len(self.feature_log) < 10`
MinSamples == 10

\* ------------------------------------------------------------------ events
\* Strings that the code measures (len) or hashes (ord) are sequences of
\* character codes.
Str_hi   == <<104, 105>>
Str_scan == <<115, 99, 97, 110>>

NoParams == [k \in {} |-> 0]

\* Events a caller may submit to process_event: every kind the extractor
\* knows, an unknown kind, and an error-shaped resource_usage payload as
\* the monitor thread builds it (inference.py:65).
DetectorEvents ==
  { [type |-> "resource_usage",   data |-> [cpu_percent |-> 10, memory_percent |-> 20]],
    [type |-> "resource_usage",   data |-> [cpu_percent |-> 99, memory_percent |-> 99]],
    [type |-> "resource_usage",   data |-> [error |-> "Failed to fetch from remote", status_code |-> 500]],
    [type |-> "message_sent",     data |-> [prompt |-> Str_hi, response |-> <<>>]],
    [type |-> "tool_usage",       data |-> [tool_name |-> Str_scan, params |-> NoParams]],
    [type |-> "message_received", data |-> [message |-> Str_hi]],
    [type |-> "ood_detection",    data |-> [embedding_score |-> -2]],
    [type |-> "heartbeat",        data |-> NoParams] }

\* Decision thresholds a fit may produce (abstract OneClassSVM surface).
Boundaries == {15, 50}

\* ---------------------------------------------------------- pure helpers
RECURSIVE SumSeq(_)
SumSeq(s) == IF s = <<>> THEN 0 ELSE Head(s) + SumSeq(Tail(s))

Max(a, b) == IF a >= b THEN a ELSE b

RECURSIVE Gcd(_, _)
Gcd(a, b) == IF b = 0 THEN a ELSE Gcd(b, a % b)

\* Python's true division a / b (b > 0, a >= 0) as an exact fraction in
\* lowest terms.
TrueDiv(a, b) == LET g == Gcd(a, b) IN [num |-> a \div g, den |-> b \div g]

Has(data, key) == key \in DOMAIN data

Raise(err) == [raised |-> err, features |-> <<>>]
Return(f)  == [raised |-> "none", features |-> f]

Denominator_PlusOne(response_len) == response_len + 1

\* svm_classifier.py:31, `max(response_len, 1)`
Denominator(response_len) == Max(response_len, 1)

ToolScore_Unbounded(tool_name) == SumSeq(tool_name)

\* svm_classifier.py:35, `sum(ord(c) for c in tool_name) % 100`
ToolScore(tool_name) == SumSeq(tool_name) % 100

\* CentralAnomalyDetector.extract_features: dict lookups data['k'] raise
\* KeyError when the key is absent; data.get('params', {}) does not.
extract_features(event) ==
  LET etype == event.type
      data  == event.data
  IN
  IF etype = "resource_usage" THEN
       IF Has(data, "cpu_percent") /\ Has(data, "memory_percent")
       THEN Return(<<data.cpu_percent, data.memory_percent>>)
       ELSE Raise("KeyError")
  ELSE IF etype = "message_sent" THEN
       IF Has(data, "prompt") /\ Has(data, "response")
       THEN LET prompt_len   == Len(data.prompt)
                response_len == Len(data.response)
            IN Return(<<prompt_len, response_len,
                        TrueDiv(prompt_len, Denominator(response_len))>>)
       ELSE Raise("KeyError")
  ELSE IF etype = "tool_usage" THEN
       IF Has(data, "tool_name")
       THEN LET tool_score == ToolScore(data.tool_name)
                nparams    == IF Has(data, "params")
                              THEN Cardinality(DOMAIN data.params) ELSE 0
            IN Return(<<tool_score, nparams>>)
       ELSE Raise("KeyError")
  ELSE IF etype = "message_received" THEN
       IF Has(data, "message")
       THEN Return(<<Len(data.message)>>)
       ELSE Raise("KeyError")
  ELSE IF etype = "ood_detection" THEN
       IF Has(data, "embedding_score")
       THEN Return(<<data.embedding_score>>)
       ELSE Raise("KeyError")
  ELSE Return(<<>>)

\* ---------------------------------------------------------------- detector
\* CentralAnomalyDetector.__init__.  scaler = 0: StandardScaler not fitted,
\* otherwise n_features_in_.  model = 0: OneClassSVM not fitted, otherwise
\* the frozen decision threshold.  samples_seen is the scaler's
\* n_samples_seen_, the number of rows of the fit.  fits counts completed
\* model.fit calls.
NewDetector ==
  [ trained         |-> FALSE,
    feature_log     |-> EmptyBag,
    anomaly_count   |-> 0,
    total_processed |-> 0,
    scaler          |-> 0,
    samples_seen    |-> 0,
    model           |-> 0,
    fits            |-> 0 ]

LogLen(d) == BagCardinality(d.feature_log)

\* np.array(self.feature_log) followed by fit_transform: rows of differing
\* length cannot form a 2-D float array, the call raises ValueError.
Homogeneous(d) == Cardinality(BagToSet(d.feature_log)) = 1

LogWidth(d) == CHOOSE w \in BagToSet(d.feature_log) : TRUE

TooFew_Never(d) == FALSE

\* svm_classifier.py:81, the minimum-sample floor of train_model
TooFew(d) == LogLen(d) < MinSamples

\* CentralAnomalyDetector.train_model; b is the surface fit() arrives at.
train_model(d, b) ==
  IF TooFew(d)
  THEN [det |-> d, raised |-> "none", ret |-> FALSE]
  ELSE IF ~Homogeneous(d)
  THEN [det |-> d, raised |-> "ValueError", ret |-> FALSE]
  ELSE [det |-> [d EXCEPT !.scaler  = LogWidth(d),
                          !.samples_seen = LogLen(d),
                          !.model   = b,
                          !.fits    = @ + 1,
                          !.trained = TRUE],
        raised |-> "none", ret |-> TRUE]

TrainingDue_IgnoresFlag(d) == LogLen(d) >= Threshold

\* svm_classifier.py:55, the training gate of process_event
TrainingDue(d) == ~d.trained /\ LogLen(d) >= Threshold

\* self.model.predict on the scaled vector: -1 outside the surface
predict(model, features) == IF features[1] > model THEN -1 ELSE 1

NotProcessed ==
  [raised |-> "none", processed |-> FALSE, reason |-> "No features extracted"]

Skip_Counts(d) ==
  [det |-> [d EXCEPT !.total_processed = @ + 1], result |-> NotProcessed]

\* svm_classifier.py:49-50, the early return on an empty vector
Skip(d) == [det |-> d, result |-> NotProcessed]

Raised(err) == [raised |-> err, processed |-> FALSE, reason |-> "exception"]

BaseResult_Flagged(event, features) ==
  [ raised |-> "none", processed |-> TRUE, event_type |-> event.type,
    features |-> features, is_anomaly |-> TRUE ]

\* svm_classifier.py:58-63, the result before classification
BaseResult(event, features) ==
  [ raised |-> "none", processed |-> TRUE, event_type |-> event.type,
    features |-> features, is_anomaly |-> FALSE ]

Classified(d, event, features) ==
  LET is_anomaly == predict(d.model, features) = -1
  IN [det    |-> [d EXCEPT !.anomaly_count =
                              IF is_anomaly THEN @ + 1 ELSE @],
      result |-> [raised |-> "none", processed |-> TRUE,
                  event_type |-> event.type, features |-> features,
                  is_anomaly |-> is_anomaly,
                  anomaly_status |->
                     IF is_anomaly THEN "ANOMALY" ELSE "NORMAL"]]

Classify_Pads(d, event, features) == Classified(d, event, features)

\* svm_classifier.py:65-76, the trained branch; scaler.transform raises
\* ValueError when the vector's width is not n_features_in_
Classify(d, event, features) ==
  IF Len(features) # d.scaler
  THEN [det |-> d, result |-> Raised("ValueError")]
  ELSE Classified(d, event, features)

\* svm_classifier.py:52, the append alone
Buffered(d, features) ==
  [d EXCEPT !.feature_log = @ (+) SetToBag({Len(features)})]

\* svm_classifier.py:53, the store of `+= 1` given the value that was read
Stored(d, tmp) == [d EXCEPT !.total_processed = tmp + 1]

Record_Uncounted(d, features) ==
  [d EXCEPT !.feature_log = @ (+) SetToBag({Len(features)})]

\* svm_classifier.py:52-53
Record(d, features) ==
  [d EXCEPT !.feature_log     = @ (+) SetToBag({Len(features)}),
            !.total_processed = @ + 1]

Finish_Deferred(d1, event, features, b) ==
  LET t == IF TrainingDue(d1) THEN train_model(d1, b)
           ELSE [det |-> d1, raised |-> "none", ret |-> FALSE]
  IN
  IF t.raised # "none" THEN [det |-> t.det, result |-> Raised(t.raised)]
  ELSE IF d1.trained THEN Classify(t.det, event, features)
  ELSE [det |-> t.det, result |-> BaseResult(event, features)]

\* svm_classifier.py:55-78, process_event from the training gate on, given
\* the detector d1 that holds the new vector
Finish(d1, event, features, b) ==
  LET t == IF TrainingDue(d1) THEN train_model(d1, b)
           ELSE [det |-> d1, raised |-> "none", ret |-> FALSE]
  IN
  IF t.raised # "none" THEN [det |-> t.det, result |-> Raised(t.raised)]
  ELSE IF t.det.trained THEN Classify(t.det, event, features)
  ELSE [det |-> t.det, result |-> BaseResult(event, features)]

\* CentralAnomalyDetector.process_event, one whole call.
process_event(d, event, b) ==
  LET x == extract_features(event) IN
  IF x.raised # "none" THEN [det |-> d, result |-> Raised(x.raised)]
  ELSE IF x.features = <<>> THEN Skip(d)
  ELSE Finish(Record(d, x.features), event, x.features, b)

\* ------------------------------------------------------------------ wrapper
\* the serial numbers 1..n, the content of an embedding list of length n
Serials(n) == [i \in 1..n |-> i]

\* LLMWatchdogWrapper.__init__ given the callback and the embeddings file
NewWrapper(cb, file) ==
  [ event_callback        |-> cb,
    current_prompt_events |-> <<>>,
    embeddings            |-> file ]

\* the callbacks a wrapper is built with: the default `lambda x: None`, or
\* the detector's process_event
Callbacks == {"noop", "detector"}

\* self.event_callback(event): what it does to the detector and whether it
\* raises into the caller
Callback(cb, d, event, b) ==
  IF cb = "noop" THEN [det |-> d, raised |-> "none"]
  ELSE LET r == process_event(d, event, b)
       IN [det |-> r.det, raised |-> r.result.raised]

Window_Unsliced(embs) == embs

\* inference.py:111  self.embeddings[-50:]
Window(embs) ==
  IF Len(embs) <= WindowSize THEN embs
  ELSE SubSeq(embs, Len(embs) - WindowSize + 1, Len(embs))

\* inference.py:110  the scoring gate
ScoreDue(embs) == Len(embs) > WindowSize

\* lof.negative_outlier_factor_[-1]: some negative number
Scores == {-1, -3}

\* texts the generation service may answer with
Responses == {<<>>, Str_hi}

\* usage payloads of the monitor loop, by outcome of the probe
\* (inference.py:61-67)
ProbeOutcomes == {"ok", "non200", "exception"}
Usage(outcome) ==
  IF outcome = "ok" THEN [cpu_percent |-> 10, memory_percent |-> 20]
  ELSE IF outcome = "non200"
  THEN [error |-> "Failed to fetch from remote", status_code |-> 500]
  ELSE [error |-> "Exception contacting remote"]

\* ------------------------------------------------------------------- state
VARIABLES
  detector,       \* the CentralAnomalyDetector instance
  call,           \* the last process_event call: its event and its result
  before,         \* the detector as it was when that call started
  wrapper,        \* the LLMWatchdogWrapper instance
  embedding_file, \* embeddings.pkl
  log_file,       \* watchdog_event_stream.jsonl: the lines appended so far
  monitor,        \* the monitor thread: "running" or "dead"
  clock,          \* time.time(), one tick per event built
  wcall,          \* the last wrapper operation and how it ended
  ops,            \* wrapper operations and polls so far
  pc,             \* SpecConc, SpecRace: where each thread is in process_event
  local,          \* SpecConc, SpecRace: a thread's `features`, loaded counter
  verdicts,       \* Spec: the verdicts returned since training, in order
  stream,         \* SpecStream: one run of process_watchdog_stream
  extracted       \* SpecExtract: the last two extract_features calls

detvars == <<detector, call, before, verdicts>>
wrapvars == <<wrapper, embedding_file, log_file, monitor, clock, wcall, ops>>
concvars == <<pc, local>>
streamvars == <<stream>>
extractvars == <<extracted>>
vars == <<detvars, wrapvars, concvars, streamvars, extractvars>>

\* the two producer paths: the synchronous caller and the monitor thread
Threads == {"sync", "poller"}

\* a thread outside process_event holds nothing
NoLocal == [features |-> <<>>, tmp |-> 0]

InitThreads ==
  /\ pc = [t \in Threads |-> "idle"]
  /\ local = [t \in Threads |-> NoLocal]

NoCall == [event |-> [type |-> "none", data |-> NoParams], result |-> NotProcessed]
NoWCall == [op |-> "none", raised |-> "none"]

InitDetector ==
  /\ detector = NewDetector
  /\ call = NoCall
  /\ before = NewDetector
  /\ verdicts = <<>>
  /\ extracted = <<>>

\* no run of process_watchdog_stream
NoStream ==
  [ exists |-> FALSE, lines |-> <<>>, pos |-> 0, results |-> <<>>,
    submitted |-> 0, state |-> "none", ret |-> [success |-> FALSE] ]

InitNoStream == stream = NoStream

InitWrapperWith(cb, file) ==
  /\ wrapper = NewWrapper(cb, file)
  /\ embedding_file = file
  /\ log_file = <<>>
  /\ monitor = "running"
  /\ clock = 0
  /\ wcall = NoWCall
  /\ ops = 0

Init ==
  /\ InitDetector
  /\ InitWrapperWith("noop", <<>>)
  /\ InitThreads
  /\ InitNoStream

\* the verdict history after a call that returned result
Observed(v, result) ==
  IF "anomaly_status" \in DOMAIN result
  THEN Append(v, [features |-> result.features,
                  is_anomaly |-> result.is_anomaly])
  ELSE v

\* a caller submits one event
ProcessEvent ==
  \E event \in DetectorEvents, b \in Boundaries :
    LET r == process_event(detector, event, b) IN
    /\ LogLen(detector) < MaxLog
    /\ detector' = r.det
    /\ call' = [event |-> event, result |-> r.result]
    /\ before' = detector
    /\ verdicts' = Observed(verdicts, r.result)
    /\ UNCHANGED <<wrapvars, concvars, streamvars, extractvars>>

Next == ProcessEvent

Spec == Init /\ [][Next]_vars

\* ---------------------------------------------- train_model called directly
\* train_model is a public method: besides process_event, a caller may
\* invoke it at any time, also on a detector that is already trained.
ForceEvents ==
  { [type |-> "resource_usage",   data |-> [cpu_percent |-> 10, memory_percent |-> 20]],
    [type |-> "message_received", data |-> [message |-> Str_hi]] }

TrainCall == [type |-> "train_model", data |-> NoParams]

\* a caller submits one event (the verdict history is not kept here)
ForceProcessEvent ==
  \E event \in ForceEvents, b \in Boundaries :
    LET r == process_event(detector, event, b) IN
    /\ LogLen(detector) < MaxLog
    /\ detector' = r.det
    /\ call' = [event |-> event, result |-> r.result]
    /\ before' = detector
    /\ UNCHANGED <<verdicts, wrapvars, concvars, streamvars, extractvars>>

\* a caller invokes detector.train_model()
TrainModel ==
  \E b \in Boundaries :
    LET r == train_model(detector, b) IN
    /\ detector.fits < MaxFits
    /\ detector' = r.det
    /\ call' = [event |-> TrainCall,
                result |-> [raised |-> r.raised, processed |-> FALSE,
                            reason |-> "train_model", ret |-> r.ret]]
    /\ before' = detector
    /\ UNCHANGED <<verdicts, wrapvars, concvars, streamvars, extractvars>>

NextForce == ForceProcessEvent \/ TrainModel

SpecForce == Init /\ [][NextForce]_vars

\* ------------------------------------------------ extract_features alone
\* characters of the strings: 'a' and 's'
Alphabet == {97, 115}

\* the strings of at most n characters
Strings(n) == UNION {[1..k -> Alphabet] : k \in 0..n}

\* the `params` payloads of a tool_usage event
ParamDicts ==
  { NoParams, [path |-> Str_hi], [path |-> Str_hi, mode |-> Str_scan] }

\* message_sent and tool_usage events as the wrapper builds them
\* (inference.py:94-102, 137-144), a tool_usage event without `params`,
\* and one event of each kind whose payload lacks a field
ExtractEvents ==
  { [type |-> "message_sent", data |-> [prompt |-> p, response |-> r]] :
      p \in Strings(MaxStr), r \in Strings(MaxStr) }
  \cup
  { [type |-> "tool_usage", data |-> [tool_name |-> n, params |-> ps]] :
      n \in Strings(MaxStr) \cup {Str_scan}, ps \in ParamDicts }
  \cup
  { [type |-> "tool_usage", data |-> [tool_name |-> n]] :
      n \in Strings(MaxStr) \cup {Str_scan} }
  \cup
  { [type |-> "message_sent", data |-> [prompt |-> Str_hi]],
    [type |-> "tool_usage",   data |-> NoParams] }

\* the last two elements of a sequence
LastTwo(s) == IF Len(s) <= 2 THEN s ELSE SubSeq(s, Len(s) - 1, Len(s))

\* a caller runs extract_features on one event
ExtractFeatures ==
  \E event \in ExtractEvents :
    /\ extracted' = LastTwo(Append(extracted,
                        [event |-> event, out |-> extract_features(event)]))
    /\ UNCHANGED <<detvars, wrapvars, concvars, streamvars>>

NextExtract == ExtractFeatures

SpecExtract == Init /\ [][NextExtract]_vars

\* ------------------------------------------------------ wrapper operations
InitWrapper ==
  /\ InitDetector
  /\ InitThreads
  /\ InitNoStream
  /\ \E cb \in Callbacks, n \in 0..MaxLoaded : InitWrapperWith(cb, Serials(n))

\* LLMWatchdogWrapper._log_grouped_events as a function of the group
LoggedGroup(log, group) == IF group = <<>> THEN log ELSE Append(log, group)

\* LLMWatchdogWrapper.generate, one whole call.  http is the outcome of the
\* POST (raise_for_status), text the generated response.
Generate ==
  \E http \in {"ok", "fail"}, text \in Responses, score \in Scores,
     b \in Boundaries :
    LET message_event == [type |-> "message_sent",
                          data |-> [prompt |-> Str_hi, response |-> text,
                                    timestamp |-> clock]]
        cb1   == Callback(wrapper.event_callback, detector, message_event, b)
        embs  == Append(wrapper.embeddings, Len(wrapper.embeddings) + 1)
        ood_event == [type |-> "ood_detection",
                      data |-> [embedding_score |-> score, text |-> text,
                                timestamp |-> clock + 1]]
        cb2   == Callback(wrapper.event_callback, cb1.det, ood_event, b)
    IN
    /\ ops < MaxOps
    /\ ops' = ops + 1
    /\ UNCHANGED <<monitor, call, before, verdicts, concvars, streamvars,
                   extractvars>>
    /\ IF http = "fail" THEN
         \* line 82 has run, line 90 raises
         /\ wrapper' = [wrapper EXCEPT !.current_prompt_events = <<>>]
         /\ wcall' = [op |-> "generate", raised |-> "HTTPError"]
         /\ UNCHANGED <<detector, embedding_file, log_file, clock>>
       ELSE IF cb1.raised # "none" THEN
         \* line 103 raises
         /\ wrapper' = [wrapper EXCEPT !.current_prompt_events = <<>>]
         /\ detector' = cb1.det
         /\ clock' = clock + 1
         /\ wcall' = [op |-> "generate", raised |-> cb1.raised]
         /\ UNCHANGED <<embedding_file, log_file>>
       ELSE IF ~ScoreDue(embs) THEN
         /\ wrapper' = [wrapper EXCEPT !.current_prompt_events = <<>>,
                                       !.embeddings = embs]
         /\ embedding_file' = embs
         /\ detector' = cb1.det
         /\ clock' = clock + 1
         /\ log_file' = LoggedGroup(log_file, <<message_event>>)
         /\ wcall' = [op |-> "generate", raised |-> "none", scored |-> FALSE,
                      window |-> <<>>]
       ELSE IF cb2.raised # "none" THEN
         \* line 124 raises: the group holds the message event, unwritten
         /\ wrapper' = [wrapper EXCEPT
                           !.current_prompt_events = <<message_event>>,
                           !.embeddings = embs]
         /\ embedding_file' = embs
         /\ detector' = cb2.det
         /\ clock' = clock + 2
         /\ wcall' = [op |-> "generate", raised |-> cb2.raised]
         /\ UNCHANGED log_file
       ELSE
         /\ wrapper' = [wrapper EXCEPT !.current_prompt_events = <<>>,
                                       !.embeddings = embs]
         /\ embedding_file' = embs
         /\ detector' = cb2.det
         /\ clock' = clock + 2
         /\ log_file' = LoggedGroup(log_file, <<message_event, ood_event>>)
         /\ wcall' = [op |-> "generate", raised |-> "none", scored |-> TRUE,
                      window |-> Window(embs)]

\* LLMWatchdogWrapper.receive_message
ReceiveMessage ==
  /\ ops < MaxOps
  /\ ops' = ops + 1
  /\ wrapper' = [wrapper EXCEPT !.current_prompt_events = <<>>]
  /\ wcall' = [op |-> "receive_message", raised |-> "none"]
  /\ UNCHANGED <<detvars, embedding_file, log_file, monitor, clock, concvars,
               streamvars, extractvars>>

\* LLMWatchdogWrapper.log_tool_usage
LogToolUsage ==
  \E b \in Boundaries :
    LET event == [type |-> "tool_usage",
                  data |-> [tool_name |-> Str_scan, params |-> NoParams,
                            timestamp |-> clock]]
        cb == Callback(wrapper.event_callback, detector, event, b)
    IN
    /\ ops < MaxOps
    /\ ops' = ops + 1
    /\ clock' = clock + 1
    /\ detector' = cb.det
    /\ IF cb.raised # "none"
       THEN /\ wcall' = [op |-> "log_tool_usage", raised |-> cb.raised]
            /\ UNCHANGED wrapper
       ELSE /\ wcall' = [op |-> "log_tool_usage", raised |-> "none"]
            /\ wrapper' = [wrapper EXCEPT
                              !.current_prompt_events = Append(@, event)]
    /\ UNCHANGED <<call, before, verdicts, embedding_file, log_file, monitor,
                 concvars, streamvars, extractvars>>

\* one iteration of monitor() in _start_resource_monitoring: the probe, the
\* callback, the log line, the sleep.  An exception that leaves the loop
\* body ends the thread.
MonitorPoll ==
  \E outcome \in ProbeOutcomes, b \in Boundaries :
    LET event == [type |-> "resource_usage", data |-> Usage(outcome)]
        cb == Callback(wrapper.event_callback, detector, event, b)
    IN
    /\ monitor = "running"
    /\ ops < MaxOps
    /\ ops' = ops + 1
    /\ detector' = cb.det
    /\ IF cb.raised # "none"
       THEN /\ monitor' = "dead"
            /\ wcall' = [op |-> "monitor", raised |-> cb.raised,
                         probe |-> outcome]
            /\ UNCHANGED log_file
       ELSE /\ monitor' = "running"
            /\ wcall' = [op |-> "monitor", raised |-> "none",
                         probe |-> outcome]
            /\ log_file' = Append(log_file, <<event>>)
    /\ UNCHANGED <<call, before, verdicts, wrapper, embedding_file, clock,
                 concvars, streamvars, extractvars>>

\* inference.py:61: requests.get is called without a timeout; when the
\* remote accepts the connection and never answers, the call never returns
\* and the monitor thread stays inside it.
MonitorBlocked ==
  /\ monitor = "running"
  /\ ops < MaxOps
  /\ ops' = ops + 1
  /\ monitor' = "blocked"
  /\ wcall' = [op |-> "monitor", raised |-> "none", probe |-> "no_response"]
  /\ UNCHANGED <<detvars, wrapper, embedding_file, log_file, clock, concvars,
                 streamvars, extractvars>>

NextWrapper ==
  Generate \/ ReceiveMessage \/ LogToolUsage \/ MonitorPoll \/ MonitorBlocked

SpecWrapper == InitWrapper /\ [][NextWrapper]_vars

\* ------------------------------------------------ process_watchdog_stream
\* CentralAnomalyDetector.get_stats
get_stats(d) ==
  [ trained                |-> d.trained,
    total_events_processed |-> d.total_processed,
    anomalies_detected     |-> d.anomaly_count,
    training_samples       |-> LogLen(d) ]

\* The lines a file may hold: a blank line, a line that is not JSON, a JSON
\* array (the shape the wrapper writes; process_event fails on it with
\* TypeError at event['type']), and JSON objects that are events.
StreamEvents ==
  { [type |-> "resource_usage", data |-> [cpu_percent |-> 99, memory_percent |-> 99]],
    [type |-> "resource_usage", data |-> [error |-> "Failed to fetch from remote", status_code |-> 500]],
    [type |-> "heartbeat",      data |-> NoParams] }

StreamLines ==
  {[kind |-> "blank"], [kind |-> "invalid"], [kind |-> "array"]}
    \cup {[kind |-> "event", event |-> e] : e \in StreamEvents}

Files == UNION {[1..n -> StreamLines] : n \in 0..MaxLines}

FileUsable_NoSizeCheck(st) == st.exists

\* svm_classifier.py:108: the file exists and its size is not 0
FileUsable(st) == st.exists /\ st.lines # <<>>

\* detector.process_event(event) on the value json.loads returned
Submit(d, line, b) ==
  IF line.kind = "array"
  THEN [det |-> d, result |-> Raised("TypeError")]
  ELSE process_event(d, line.event, b)

AfterBadLine_Breaks(pos, n) == n + 1

\* svm_classifier.py:124-127: both except clauses log and fall through to
\* the next line of the file
AfterBadLine(pos, n) == pos + 1

\* svm_classifier.py:109-113 and 143-147
Failure(msg) == [success |-> FALSE, error |-> msg, anomalies |-> 0]

\* svm_classifier.py:130
CountAnomalies(results) ==
  Cardinality({i \in 1..Len(results) :
                 Has(results[i], "is_anomaly") /\ results[i].is_anomaly})

InitStream ==
  /\ InitDetector
  /\ InitWrapperWith("noop", <<>>)
  /\ InitThreads
  /\ \E ex \in BOOLEAN, ls \in Files :
       /\ ~ex => ls = <<>>
       /\ stream = [ exists |-> ex, lines |-> ls, pos |-> 0,
                     results |-> <<>>, submitted |-> 0, state |-> "start",
                     ret |-> [success |-> FALSE] ]

\* lines 104-113: the detector is created, the file is tested
StreamOpen ==
  /\ stream.state = "start"
  /\ IF FileUsable(stream)
     THEN stream' = [stream EXCEPT !.state = "scan", !.pos = 1]
     ELSE stream' = [stream EXCEPT
                       !.state = "done",
                       !.ret = Failure("File does not exist or is empty")]
  /\ UNCHANGED <<detvars, wrapvars, concvars, extractvars>>

\* lines 116-127: one turn of the loop over the file
StreamLine ==
  \E b \in Boundaries :
    LET n    == Len(stream.lines)
        line == stream.lines[stream.pos]
        r    == Submit(detector, line, b)
    IN
    /\ stream.state = "scan"
    /\ stream.pos <= n
    /\ IF line.kind = "blank" THEN
         /\ stream' = [stream EXCEPT !.pos = @ + 1]
         /\ UNCHANGED detector
       ELSE IF line.kind = "invalid" THEN
         /\ stream' = [stream EXCEPT !.pos = AfterBadLine(@, n)]
         /\ UNCHANGED detector
       ELSE IF r.result.raised # "none" THEN
         /\ stream' = [stream EXCEPT !.pos = AfterBadLine(@, n),
                                     !.submitted = @ + 1]
         /\ detector' = r.det
       ELSE
         /\ stream' = [stream EXCEPT !.pos = @ + 1,
                                     !.submitted = @ + 1,
                                     !.results = Append(@, r.result)]
         /\ detector' = r.det
    /\ UNCHANGED <<call, before, verdicts, wrapvars, concvars,
                   extractvars>>

\* lines 129-140: the end of the file is reached
StreamReturn ==
  /\ stream.state = "scan"
  /\ stream.pos > Len(stream.lines)
  /\ stream' = [stream EXCEPT
       !.state = "done",
       !.ret = [ success         |-> TRUE,
                 stats           |-> get_stats(detector),
                 anomalies       |-> CountAnomalies(stream.results),
                 total_processed |-> Len(stream.results),
                 model_trained   |-> detector.trained ]]
  /\ UNCHANGED <<detvars, wrapvars, concvars, extractvars>>

NextStream == StreamOpen \/ StreamLine \/ StreamReturn

SpecStream == InitStream /\ [][NextStream]_vars

\* ------------------------------------------- concurrent process_event
\* Both producer paths call process_event on one detector with no lock
\* (inference.py:70 from the monitor thread, inference.py:103,124,145 from
\* the caller's thread).  A thread may be preempted between statements:
\*   idle -> gate      lines 48-53  extract, append, count
\*   gate -> fit|score line 55      the training gate
\*   fit  -> score     lines 80-91  train_model
\*   score -> idle     lines 58-78  classification and return
\* An exception ends the call; in the monitor thread it ends the thread.
SyncEvents ==
  { [type |-> "tool_usage",   data |-> [tool_name |-> Str_scan, params |-> NoParams]],
    [type |-> "message_sent", data |-> [prompt |-> Str_hi, response |-> <<>>]] }

PollerEvents ==
  { [type |-> "resource_usage", data |-> Usage(o)] : o \in {"ok", "non200"} }

EventsOf(t) == IF t = "sync" THEN SyncEvents ELSE PollerEvents

\* where a thread goes when its call raises
AfterRaise(t) == IF t = "poller" THEN "dead" ELSE "idle"

InitConc ==
  /\ InitDetector
  /\ InitWrapperWith("detector", <<>>)
  /\ InitThreads
  /\ InitNoStream

CBegin(t) ==
  \E event \in EventsOf(t) :
    LET x == extract_features(event) IN
    /\ pc[t] = "idle"
    /\ LogLen(detector) < MaxLog
    /\ IF x.raised # "none" THEN
         /\ pc' = [pc EXCEPT ![t] = AfterRaise(t)]
         /\ UNCHANGED <<detector, local>>
       ELSE IF x.features = <<>> THEN
         UNCHANGED <<detector, pc, local>>
       ELSE
         /\ detector' = Record(detector, x.features)
         /\ local' = [local EXCEPT ![t] = [features |-> x.features, tmp |-> 0]]
         /\ pc' = [pc EXCEPT ![t] = "gate"]
    /\ UNCHANGED <<call, before, verdicts, wrapvars, streamvars, extractvars>>

CGate(t) ==
  /\ pc[t] = "gate"
  /\ pc' = [pc EXCEPT ![t] = IF TrainingDue(detector) THEN "fit" ELSE "score"]
  /\ UNCHANGED <<detvars, wrapvars, local, streamvars, extractvars>>

CFit(t) ==
  \E b \in Boundaries :
    LET r == train_model(detector, b) IN
    /\ pc[t] = "fit"
    /\ detector' = r.det
    /\ IF r.raised # "none"
       THEN /\ pc' = [pc EXCEPT ![t] = AfterRaise(t)]
            /\ local' = [local EXCEPT ![t] = NoLocal]
       ELSE /\ pc' = [pc EXCEPT ![t] = "score"]
            /\ UNCHANGED local
    /\ UNCHANGED <<call, before, verdicts, wrapvars, streamvars, extractvars>>

CScore(t) ==
  LET r == IF detector.trained
           THEN Classify(detector, [type |-> "any"], local[t].features)
           ELSE [det |-> detector, result |-> NotProcessed]
  IN
  /\ pc[t] = "score"
  /\ detector' = r.det
  /\ pc' = [pc EXCEPT ![t] = IF r.result.raised # "none"
                             THEN AfterRaise(t) ELSE "idle"]
  /\ local' = [local EXCEPT ![t] = NoLocal]
  /\ UNCHANGED <<call, before, verdicts, wrapvars, streamvars, extractvars>>

NextConc == \E t \in Threads : CBegin(t) \/ CGate(t) \/ CFit(t) \/ CScore(t)

SpecConc == InitConc /\ [][NextConc]_vars

\* ------------------------------------- concurrent updates of the counters
\* `self.total_processed += 1` (line 53) reads the attribute, adds, and
\* stores the sum; no lock covers it, and whether a thread switch can fall
\* between the read and the store depends on the interpreter, so both
\* orders are possible:
\*   idle -> load      lines 48-52  extract, append (list.append is atomic)
\*   load -> store     line 53      read self.total_processed
\*   store -> rest     line 53      store the sum
\*   rest -> idle      lines 55-78  gate, training, classification, return
RBegin(t) ==
  \E event \in EventsOf(t) :
    LET x == extract_features(event) IN
    /\ pc[t] = "idle"
    /\ LogLen(detector) < MaxRace
    /\ IF x.raised # "none" THEN
         /\ pc' = [pc EXCEPT ![t] = AfterRaise(t)]
         /\ UNCHANGED <<detector, local>>
       ELSE IF x.features = <<>> THEN
         UNCHANGED <<detector, pc, local>>
       ELSE
         /\ detector' = Buffered(detector, x.features)
         /\ local' = [local EXCEPT ![t] = [features |-> x.features, tmp |-> 0]]
         /\ pc' = [pc EXCEPT ![t] = "load"]
    /\ UNCHANGED <<call, before, verdicts, wrapvars, streamvars, extractvars>>

RLoad(t) ==
  /\ pc[t] = "load"
  /\ local' = [local EXCEPT ![t].tmp = detector.total_processed]
  /\ pc' = [pc EXCEPT ![t] = "store"]
  /\ UNCHANGED <<detvars, wrapvars, streamvars, extractvars>>

RStore(t) ==
  /\ pc[t] = "store"
  /\ detector' = Stored(detector, local[t].tmp)
  /\ local' = [local EXCEPT ![t].tmp = 0]
  /\ pc' = [pc EXCEPT ![t] = "rest"]
  /\ UNCHANGED <<call, before, verdicts, wrapvars, streamvars, extractvars>>

RFinish(t) ==
  \E b \in Boundaries :
    LET r == Finish(detector, [type |-> "any"], local[t].features, b) IN
    /\ pc[t] = "rest"
    /\ detector' = r.det
    /\ pc' = [pc EXCEPT ![t] = IF r.result.raised # "none"
                               THEN AfterRaise(t) ELSE "idle"]
    /\ local' = [local EXCEPT ![t] = NoLocal]
    /\ UNCHANGED <<call, before, verdicts, wrapvars, streamvars, extractvars>>

NextRace == \E t \in Threads : RBegin(t) \/ RLoad(t) \/ RStore(t) \/ RFinish(t)

SpecRace == InitConc /\ [][NextRace]_vars

\* ------------------------------------------------- claims on the detector
\* what the last call's event yields
CallFeatures == extract_features(call.event)
CallBearsFeatures ==
  CallFeatures.raised = "none" /\ CallFeatures.features # <<>>
Returned == call.result.raised = "none" /\ call.result.processed

\* C1: over any sequence of process_event calls the boundary model is
\* fitted at most once, and once trained is true it stays true (and the
\* fitted scaler and model stay what they were).
C1_FitOnce ==
  [][ /\ detector'.fits <= 1
      /\ detector.trained =>
            /\ detector'.trained
            /\ detector'.fits = detector.fits
            /\ detector'.model = detector.model
            /\ detector'.scaler = detector.scaler ]_vars

\* a call was made on a detector that was already trained
C1_Witness == before.trained /\ detector.trained /\ Returned

\* C3: the detector is trained as soon as the call that brings the buffer
\* to the threshold is over, whatever the kinds of the buffered events.
C3_TrainedAtThreshold == LogLen(detector) >= Threshold => detector.trained

\* C4 as stated: a feature-bearing call that leaves the detector untrained
\* appends the vector and returns is_anomaly = None, not a boolean.
C4_VerdictIsNone ==
  (CallBearsFeatures /\ Returned /\ ~detector.trained) =>
     /\ detector.feature_log =
          before.feature_log (+) SetToBag({Len(CallFeatures.features)})
     /\ call.result.is_anomaly \notin BOOLEAN

\* C4 amended: a feature-bearing call that starts on an untrained detector
\* appends the vector; if the detector is still untrained when the call
\* returns, the result carries is_anomaly = False and no anomaly_status.
C4_UntrainedReturnsFalse ==
  (CallBearsFeatures /\ ~before.trained) =>
     /\ detector.feature_log =
          before.feature_log (+) SetToBag({Len(CallFeatures.features)})
     /\ (Returned /\ ~detector.trained) =>
          /\ call.result.is_anomaly = FALSE
          /\ "anomaly_status" \notin DOMAIN call.result

\* a feature-bearing call returned on a detector that is still untrained
C4_Witness ==
  CallBearsFeatures /\ Returned /\ ~detector.trained /\ LogLen(detector) > 1

\* C5: a call on an event whose feature vector is empty leaves the whole
\* detector as it was and returns the not-processed outcome.
C5_EmptyVectorNoEffect ==
  CallFeatures = Return(<<>>) =>
     /\ detector = before
     /\ call.result = NotProcessed

\* an unknown-kind event was submitted to a detector that holds data
C5_Witness == call.event.type = "heartbeat" /\ LogLen(detector) > 0

\* C10: on a trained detector a vector of another width fails with an
\* error, the trained flag and the fit are untouched, and vectors of the
\* trained width are classified by the frozen model, also afterwards.
C10_MismatchConfined ==
  (CallBearsFeatures /\ before.trained) =>
     /\ detector.trained
     /\ detector.model = before.model
     /\ detector.scaler = before.scaler
     /\ detector.fits = before.fits
     /\ IF Len(CallFeatures.features) # before.scaler
        THEN call.result.raised = "ValueError"
        ELSE /\ Returned
             /\ call.result.is_anomaly =
                   (predict(before.model, CallFeatures.features) = -1)
             /\ "anomaly_status" \in DOMAIN call.result

\* a vector of the trained width was classified after a mismatch failed
C10_Witness ==
  /\ detector.trained /\ ~Homogeneous(detector)
  /\ Returned /\ "anomaly_status" \in DOMAIN call.result


\* the kinds extract_features has a branch for (svm_classifier.py:25-42)
KnownKinds == {"resource_usage", "message_sent", "tool_usage",
               "message_received", "ood_detection"}

\* C11: extract_features is total: whatever the kind and the payload of the
\* submitted event it returns a vector or the empty vector and never fails,
\* an unknown kind gives the empty vector, and the detector is not modified
\* by the extraction.
C11_ExtractTotal ==
  /\ CallFeatures.raised = "none"
  /\ call.event.type \notin KnownKinds => CallFeatures.features = <<>>
  /\ CallFeatures.features = <<>> => detector = before

\* C12: in every reachable state anomalies_detected <= total_events_processed
\* (the counters get_stats reports).
C12_AnomaliesWithinTotal == detector.anomaly_count <= detector.total_processed

\* an anomaly has been counted
C12_Witness == detector.anomaly_count > 0

\* the fitted normalization and boundary model of a detector
Fit(d) == <<d.scaler, d.samples_seen, d.model, d.fits>>

\* C13: train_model called again on a trained detector whose buffer is at
\* or past the threshold does not refit: the fitted normalization and the
\* boundary model are after the call what they were before it.
C13_NoRefit ==
  (call.event = TrainCall /\ before.trained /\ LogLen(before) >= Threshold) =>
     Fit(detector) = Fit(before)

\* C18: train_model with fewer than 10 buffered vectors is deferred: it
\* returns False, raises nothing, fits neither the scaler nor the model and
\* leaves the detector untrained (not having been trained before).
C18_DeferredBelowFloor ==
  (call.event = TrainCall /\ LogLen(before) < MinSamples) =>
     /\ call.result.raised = "none"
     /\ call.result.ret = FALSE
     /\ detector = before
     /\ ~detector.trained

\* train_model was called on a buffer of 9 vectors of one width
C18_Witness ==
  call.event = TrainCall /\ LogLen(before) = MinSamples - 1 /\ Homogeneous(before)

\* -------------------------------------------------- claims on the wrapper
Group == wrapper.current_prompt_events
Elems(seq) == {seq[i] : i \in 1..Len(seq)}
LastLine(log) == log[Len(log)]
GenerateReturned == wcall.op = "generate" /\ wcall.raised = "none"

\* C6: no event accumulated into the session group is dropped: an event
\* leaves the group only by being written to the log as part of the group's
\* line (at the new-session signal or at the end of generate).
C6_GroupFlushed ==
  [][ \A e \in Elems(Group) :
        \/ e \in Elems(Group')
        \/ /\ Len(log_file') > Len(log_file)
           /\ e \in Elems(LastLine(log_file')) ]_vars

\* C7: a failed probe never ends the poll loop: the iteration hands the
\* error-shaped resource_usage event to the callback, writes it to the log
\* and the loop stays alive for the next poll.
C7_ProbeFailureSurvived ==
  (wcall.op = "monitor" /\ wcall.probe \in {"non200", "exception"}) =>
     /\ monitor = "running"
     /\ log_file # <<>>
     /\ LastLine(log_file) =
          <<[type |-> "resource_usage", data |-> Usage(wcall.probe)]>>

\* C14: every resource_usage event the monitor loop produces is written
\* to the log at once, as a line of its own holding just that event, and
\* is never put into the session group.
C14_UsageLoggedAtOnce ==
  /\ \A e \in Elems(Group) : e.type # "resource_usage"
  /\ (wcall.op = "monitor" /\ wcall.probe \in ProbeOutcomes) =>
        /\ log_file # <<>>
        /\ LastLine(log_file) =
             <<[type |-> "resource_usage", data |-> Usage(wcall.probe)]>>

\* C15: a probe that never answers cannot hold the poll loop: the request
\* times out, the iteration logs an error-shaped resource_usage event and
\* the loop is free for its next poll.
C15_ProbeTimesOut ==
  (wcall.op = "monitor" /\ wcall.probe = "no_response") =>
     /\ monitor = "running"
     /\ log_file # <<>>
     /\ Len(LastLine(log_file)) = 1
     /\ LastLine(log_file)[1].type = "resource_usage"
     /\ "error" \in DOMAIN LastLine(log_file)[1].data

\* C8 as stated: the embedding buffer never holds more than 50 embeddings,
\* an insertion by generate evicts the oldest entry instead.
C8_BufferBounded ==
  GenerateReturned => Len(wrapper.embeddings) <= WindowSize

\* C8 amended: the window generate scores is exactly the 50 most recent
\* embeddings (at the 51st insertion the 1st is outside it), while the
\* buffer itself is never trimmed: it still holds every embedding from the
\* first on.
C8_WindowBounded ==
  /\ wrapper.embeddings = Serials(Len(wrapper.embeddings))
  /\ (GenerateReturned /\ wcall.scored) =>
        /\ Len(wcall.window) = WindowSize
        /\ \A i \in 1..WindowSize :
             wcall.window[i] =
               wrapper.embeddings[Len(wrapper.embeddings) - WindowSize + i]

\* the 51st insertion was scored on a window that starts at the 2nd
C8_Witness ==
  /\ GenerateReturned /\ wcall.scored
  /\ Len(wrapper.embeddings) = WindowSize + 1
  /\ wcall.window[1] = 2

\* C9: generate emits a novelty score exactly when the buffer holds at
\* least 50 embeddings after the insertion.
C9_ScoreIffFull ==
  GenerateReturned =>
     (wcall.scored <=> Len(wrapper.embeddings) >= WindowSize)


\* --------------------------------------- claims on concurrent callers
\* C2: with both producer paths inside process_event, the step from
\* untrained to trained is atomic: two callers never each trigger a
\* training of their own, one fit occurs in every interleaving.
C2_ExactlyOneFit == detector.fits <= 1


\* ---------------------------------------- claims on the batch entry point
StreamDone == stream.state = "done"
JsonLines(lines) ==
  Cardinality({i \in 1..Len(lines) : lines[i].kind \in {"array", "event"}})

\* C16: one bad line never aborts the scan: after a line that is not JSON
\* or an event whose processing raises, every later line is still read and
\* every JSON line is submitted to process_event; the call returns
\* success: true.
C16_BadLineSkipped ==
  (StreamDone /\ FileUsable(stream)) =>
     /\ stream.ret.success = TRUE
     /\ stream.pos = Len(stream.lines) + 1
     /\ stream.submitted = JsonLines(stream.lines)

\* a run returned on a file with a non-JSON line, then an event that
\* raises, then an event that was processed
C16_Witness ==
  /\ StreamDone
  /\ Len(stream.results) > 0
  /\ \E i, j, k \in 1..Len(stream.lines) :
       /\ i < j /\ j < k
       /\ stream.lines[i].kind = "invalid"
       /\ stream.lines[j].kind = "event"
       /\ extract_features(stream.lines[j].event).raised # "none"
       /\ stream.lines[k].kind = "event"
       /\ extract_features(stream.lines[k].event).raised = "none"

\* C17: on a path that does not exist or that names an empty file the call
\* returns {success: false, error: ..., anomalies: 0}.
C17_MissingOrEmpty ==
  (StreamDone /\ (~stream.exists \/ stream.lines = <<>>)) =>
     /\ stream.ret.success = FALSE
     /\ Has(stream.ret, "error")
     /\ stream.ret.anomalies = 0
     /\ detector = NewDetector

\* a run returned on a file that exists and is empty
C17_Witness == StreamDone /\ stream.exists /\ stream.lines = <<>>


\* every thread is outside process_event
Quiescent == \A t \in Threads : pc[t] \in {"idle", "dead"}

\* C19: with both producer paths in process_event no counter update is
\* lost: once all calls are over, total_events_processed and
\* training_samples both equal the number of submitted events that yielded
\* features (every such event is in feature_log: the append is atomic).
C19_NoLostUpdate ==
  Quiescent =>
     get_stats(detector).total_events_processed =
        get_stats(detector).training_samples

\* C20: the same vector fed twice to a trained detector gets the same
\* is_anomaly verdict both times, whatever process_event calls happen in
\* between.
C20_SameVerdict ==
  \A i, j \in DOMAIN verdicts :
     verdicts[i].features = verdicts[j].features
        => verdicts[i].is_anomaly = verdicts[j].is_anomaly

\* a vector was classified, then another one, then the first one again
C20_Witness ==
  /\ Len(verdicts) >= 3
  /\ verdicts[1].features = verdicts[3].features
  /\ verdicts[2].features # verdicts[1].features

\* the message_sent calls in the history whose payload has both fields
SentCalls ==
  {i \in DOMAIN extracted :
     /\ extracted[i].event.type = "message_sent"
     /\ Has(extracted[i].event.data, "prompt")
     /\ Has(extracted[i].event.data, "response")}

\* C21: for every message_sent event extract_features returns
\* [len(prompt), len(response), len(prompt) / max(len(response), 1)]; when
\* the response is empty the denominator is 1, the third feature equals
\* len(prompt) and no division error occurs.
C21_RatioGuarded ==
  \A i \in SentCalls :
    LET p   == Len(extracted[i].event.data.prompt)
        r   == Len(extracted[i].event.data.response)
        out == extracted[i].out
    IN
    /\ out.raised = "none"
    /\ Len(out.features) = 3
    /\ out.features[1] = p
    /\ out.features[2] = r
    /\ out.features[3].den > 0
    /\ out.features[3].num * (IF r >= 1 THEN r ELSE 1) = p * out.features[3].den
    /\ r = 0 => out.features[3] = [num |-> p, den |-> 1]

\* a message_sent event with an empty response and one with a response
\* longer than one character have been extracted
C21_Witness ==
  /\ Len(extracted) = 2
  /\ SentCalls = {1, 2}
  /\ extracted[1].event.data.response = <<>>
  /\ Len(extracted[1].event.data.prompt) = 2
  /\ Len(extracted[2].event.data.response) = 2
  /\ Len(extracted[2].event.data.prompt) = 1

\* the tool_usage calls in the history whose payload names the tool
ToolCalls ==
  {i \in DOMAIN extracted :
     /\ extracted[i].event.type = "tool_usage"
     /\ Has(extracted[i].event.data, "tool_name")}

\* C22: for every tool_usage event the first feature is (sum of the
\* character codes of tool_name) mod 100, so it lies in [0,100) and is the
\* same for events with the same tool_name, and the second feature is the
\* number of parameter entries (0 when params is absent).
C22_ToolFeatures ==
  /\ \A i \in ToolCalls :
       LET data == extracted[i].event.data
           out  == extracted[i].out
       IN
       /\ out.raised = "none"
       /\ Len(out.features) = 2
       /\ out.features[1] \in 0..99
       /\ (SumSeq(data.tool_name) - out.features[1]) % 100 = 0
       /\ Has(data, "params") =>
             out.features[2] = Cardinality(DOMAIN data.params)
       /\ ~Has(data, "params") => out.features[2] = 0
  /\ \A i, j \in ToolCalls :
       extracted[i].event.data.tool_name = extracted[j].event.data.tool_name
          => extracted[i].out.features[1] = extracted[j].out.features[1]

\* "scan" was extracted twice, once without params and once with two
\* entries, and its character codes sum to more than 100
C22_Witness ==
  /\ Len(extracted) = 2
  /\ ToolCalls = {1, 2}
  /\ extracted[1].event.data.tool_name = Str_scan
  /\ extracted[2].event.data.tool_name = Str_scan
  /\ ~Has(extracted[1].event.data, "params")
  /\ Has(extracted[2].event.data, "params")
  /\ extracted[2].out.features = <<21, 2>>

\* C23: a process_event call that fails with an error leaves the detector
\* as it was before the call: feature_log, total_processed and
\* anomaly_count are unchanged (which is what keeps total_events_processed
\* equal to the number of calls that returned processed: true).
C23_FailedCallNoEffect ==
  call.result.raised # "none" =>
     /\ detector.feature_log = before.feature_log
     /\ detector.total_processed = before.total_processed
     /\ detector.anomaly_count = before.anomaly_count

\* C24: in every successful result of process_watchdog_stream the top-level
\* total_processed equals stats.total_events_processed, whatever the file
\* holds.
C24_TotalsAgree ==
  (StreamDone /\ stream.ret.success) =>
     stream.ret.total_processed = stream.ret.stats.total_events_processed

\* C25: in a stream of events that all yield vectors of one width, the
\* call that brings the buffer to 50 vectors fits the model and classifies
\* its own event: the first 49 feature-bearing events return without an
\* anomaly_status and with is_anomaly False, every feature-bearing event
\* from the 50th on returns with an anomaly_status of ANOMALY or NORMAL.
C25_ClassifiedFromFiftieth ==
  (CallBearsFeatures /\ Homogeneous(detector)) =>
     /\ Returned
     /\ LogLen(detector) = LogLen(before) + 1
     /\ IF LogLen(detector) < Threshold
        THEN /\ ~Has(call.result, "anomaly_status")
             /\ call.result.is_anomaly = FALSE
             /\ ~detector.trained
        ELSE /\ Has(call.result, "anomaly_status")
             /\ call.result.anomaly_status \in {"ANOMALY", "NORMAL"}
             /\ detector.trained
     /\ LogLen(detector) = Threshold =>
           ~before.trained /\ detector.fits = 1

\* the 50th vector of one width has just been submitted
C25_Witness ==
  /\ CallBearsFeatures /\ Homogeneous(detector)
  /\ LogLen(detector) = Threshold
  /\ Has(call.result, "anomaly_status")

====
